---- MODULE Spec2Model ----
(***************************************************************************)
(* A model of idiff (src/main.go): a generator / filter / fan-out / fan-in *)
(* pipeline of goroutines over unbuffered channels that diffs two          *)
(* directories of PNG files, and the image functions each worker runs.     *)
(*                                                                         *)
(* Paths and file names are sequences of one-character strings, so that    *)
(* filepath.Ext, filepath.Join and the string concatenation outFile+"tmp"  *)
(* are computed as the code computes them.  An image is its Bounds().Max   *)
(* (w, h; Min is always (0,0) for a decoded PNG and for image.Rect(0,0,..))*)
(* and its pixels; a nil image.Image is NilImage.                          *)
(*                                                                         *)
(* Every channel is unbuffered: a send and the receive it meets are one    *)
(* step of the two goroutines.  main's range over the combined stream is   *)
(* always ready to receive, and prints what it receives in the same step.  *)
(* The forwarding goroutines of fanDiffJobsIn exist from the start (the    *)
(* goroutine that only starts them is not a step of its own).  A panic in  *)
(* any goroutine, log.Fatal and main's return each end the process: no     *)
(* step follows.  The directory names stand for os.Args[1..3], whatever    *)
(* they are; the worker count is any value of -t, zero included.           *)
(***************************************************************************)
EXTENDS Integers, Sequences, FiniteSets, TLC

\* ------------------------------------------------------------------ bounds

\* largest worker count (-t) explored; 0 workers is explored too
MaxThreads == 2
\* largest image width and height explored by the image-function specification
MaxDim == 2

\* ------------------------------------------------------- strings and paths

\* the characters used, in byte order
Alphabet == <<".", "/", "1", "2", "a", "b", "c", "g", "m", "n", "o", "p", "t", "x">>

Code(c) == CHOOSE i \in 1..Len(Alphabet) : Alphabet[i] = c

\* Go string comparison s < t (byte-wise lexicographic)
RECURSIVE StrLess(_, _)
StrLess(s, t) ==
  IF t = <<>> THEN FALSE
  ELSE IF s = <<>> THEN TRUE
  ELSE IF Head(s) # Head(t) THEN Code(Head(s)) < Code(Head(t))
  ELSE StrLess(Tail(s), Tail(t))

\* filepath.Ext: the suffix beginning at the last dot of the last path element
RECURSIVE ExtFrom(_, _)
ExtFrom(path, i) ==
  IF i < 1 \/ path[i] = "/" THEN <<>>
  ELSE IF path[i] = "." THEN SubSeq(path, i, Len(path))
  ELSE ExtFrom(path, i - 1)

Ext(path) == ExtFrom(path, Len(path))

\* filepath.Join of a directory and a file name (both already clean)
Join(dir, name) == dir \o <<"/">> \o name

\* the last element of a path and the directory holding it
RECURSIVE LastSlash(_, _)
LastSlash(path, i) ==
  IF i < 1 THEN 0 ELSE IF path[i] = "/" THEN i ELSE LastSlash(path, i - 1)

Base(path) == SubSeq(path, LastSlash(path, Len(path)) + 1, Len(path))
DirOf(path) == SubSeq(path, 1, LastSlash(path, Len(path)) - 1)

PngExt == <<".", "p", "n", "g">>
TmpSuffix == <<"t", "m", "p">>

\* ----------------------------------------------------------------- images

Point(x, y) == [X |-> x, Y |-> y]
Rect(x0, y0, x1, y1) == [Min |-> Point(x0, y0), Max |-> Point(x1, y1)]

\* the points of a rectangle (Min inclusive, Max exclusive)
PointsOf(r) == (r.Min.X .. r.Max.X - 1) \X (r.Min.Y .. r.Max.Y - 1)

\* intMax
intMax(i1, i2) == IF i1 > i2 THEN i1 ELSE i2
intMin(i1, i2) == IF i1 < i2 THEN i1 ELSE i2

\* Rectangle.Intersect
Intersect(r, s) ==
  LET x0 == intMax(r.Min.X, s.Min.X)
      y0 == intMax(r.Min.Y, s.Min.Y)
      x1 == intMin(r.Max.X, s.Max.X)
      y1 == intMin(r.Max.Y, s.Max.Y)
  IN IF x0 >= x1 \/ y0 >= y1 THEN Rect(0, 0, 0, 0) ELSE Rect(x0, y0, x1, y1)

\* Rectangle.Add
RectAdd(r, p) == Rect(r.Min.X + p.X, r.Min.Y + p.Y, r.Max.X + p.X, r.Max.Y + p.Y)

\* the zero pixel of a fresh RGBA canvas
ZeroPixel == <<"zero", 0, 0>>

\* a nil image.Image: any method call on it panics
NilImage == [w |-> -1, h |-> -1, px |-> [p \in {} |-> ZeroPixel]]
IsNil(img) == img.w = -1

\* a decoded picture "id" of w x h whose pixel at (x,y) is <<id, x, y>>
Picture(id, w, h) ==
  [w |-> w, h |-> h, px |-> [p \in (0..w-1) \X (0..h-1) |-> <<id, p[1], p[2]>>]]

\* img.Bounds() of a non-nil image
Bounds(img) == Rect(0, 0, img.w, img.h)

\* image.NewRGBA(r) for a rectangle with Min = (0,0)
NewRGBA(r) ==
  [w |-> r.Max.X, h |-> r.Max.Y, px |-> [p \in PointsOf(r) |-> ZeroPixel]]

\* draw.Draw(dst, r, src, sp, draw.Src): r is clipped to dst and to src
\* (translated so that sp falls on r.Min), then copied
Draw(dst, r, src, sp) ==
  LET orig == r.Min
      c1 == Intersect(r, Bounds(dst))
      c2 == Intersect(c1, RectAdd(Bounds(src), Point(orig.X - sp.X, orig.Y - sp.Y)))
      pts == PointsOf(c2)
  IN [dst EXCEPT !.px =
        [p \in DOMAIN dst.px |->
           IF p \in pts
             THEN src.px[<<p[1] - orig.X + sp.X, p[2] - orig.Y + sp.Y>>]
             ELSE dst.px[p]]]

\* ------------------------------------------------------------ file system

\* A file system is a function from the paths that exist to their entries.
DirEntry == [kind |-> "dir", img |-> NilImage]
JunkEntry == [kind |-> "junk", img |-> NilImage]
PngEntry(img) == [kind |-> "png", img |-> img]

\* png.Encode then a later png.Decode: an image without pixels is refused by
\* the encoder and leaves the created file empty
Encoded(img) == IF img.w > 0 /\ img.h > 0 THEN PngEntry(img) ELSE JunkEntry

\* os.Create(path) followed by png.Encode(file, img), errors ignored: when
\* the file cannot be created nothing is written
CreateAndEncode(fsys, path, img) ==
  IF /\ DirOf(path) \in DOMAIN fsys
     /\ fsys[DirOf(path)].kind = "dir"
     /\ ~(path \in DOMAIN fsys /\ fsys[path].kind = "dir")
    THEN [q \in DOMAIN fsys \cup {path} |-> IF q = path THEN Encoded(img) ELSE fsys[q]]
    ELSE fsys

\* os.Remove(path), error ignored (directories of the model are never empty
\* of interest: only plain files are removed)
Remove(fsys, path) ==
  IF path \in DOMAIN fsys /\ fsys[path].kind # "dir"
    THEN [q \in DOMAIN fsys \ {path} |-> fsys[q]]
    ELSE fsys

\* fileExists without the IsDir test
fileExistsAnyKind(fsys, path) == path \in DOMAIN fsys

\* fileExists
fileExists(fsys, path) ==
  IF path \notin DOMAIN fsys THEN FALSE
  ELSE IF fsys[path].kind = "dir" THEN FALSE
  ELSE TRUE

\* loadAndDecodePng: the decoded image, or nil when the file cannot be
\* opened or is no PNG (the error is dropped by every caller)
loadAndDecodePng(fsys, filePath) ==
  IF filePath \notin DOMAIN fsys THEN NilImage
  ELSE IF fsys[filePath].kind # "png" THEN NilImage
  ELSE fsys[filePath].img

\* resizeImage allocating the canvas from the image instead of from size
resizeImageNoPad(fsys, img1, size, outputFile) ==
  LET newImage == Draw(NewRGBA(Bounds(img1)), Bounds(img1), img1, Point(0, 0))
  IN CreateAndEncode(fsys, outputFile, newImage)

\* resizeImage: a canvas of the given size with img1 drawn at its own bounds
resizeImage(fsys, img1, size, outputFile) ==
  LET newImage == Draw(NewRGBA(size), Bounds(img1), img1, Point(0, 0))
  IN CreateAndEncode(fsys, outputFile, newImage)

\* commonSizeImageLengths resizing on >= instead of >
commonSizeImageLengthsGe(fsys, in1, in2, out) ==
  LET img1 == loadAndDecodePng(fsys, in1)
      img2 == loadAndDecodePng(fsys, in2)
  IN IF IsNil(img1) \/ IsNil(img2)
       THEN [panic |-> TRUE, inA |-> in1, inB |-> in2, fs |-> fsys]
     ELSE IF Bounds(img1).Max.Y >= Bounds(img2).Max.Y
       THEN [panic |-> FALSE, inA |-> in1, inB |-> out,
             fs |-> resizeImage(fsys, img2, Bounds(img1), out)]
     ELSE IF Bounds(img2).Max.Y > Bounds(img1).Max.Y
       THEN [panic |-> FALSE, inA |-> out, inB |-> in2,
             fs |-> resizeImage(fsys, img1, Bounds(img2), out)]
     ELSE [panic |-> FALSE, inA |-> in1, inB |-> in2, fs |-> fsys]

\* commonSizeImageLengths: the two paths to compare and the file system
\* after the call; panic when Bounds() is called on a nil image
commonSizeImageLengths(fsys, in1, in2, out) ==
  LET img1 == loadAndDecodePng(fsys, in1)
      img2 == loadAndDecodePng(fsys, in2)
  IN IF IsNil(img1) \/ IsNil(img2)
       THEN [panic |-> TRUE, inA |-> in1, inB |-> in2, fs |-> fsys]
     ELSE IF Bounds(img1).Max.Y > Bounds(img2).Max.Y
       THEN [panic |-> FALSE, inA |-> in1, inB |-> out,
             fs |-> resizeImage(fsys, img2, Bounds(img1), out)]
     ELSE IF Bounds(img2).Max.Y > Bounds(img1).Max.Y
       THEN [panic |-> FALSE, inA |-> out, inB |-> in2,
             fs |-> resizeImage(fsys, img1, Bounds(img2), out)]
     ELSE [panic |-> FALSE, inA |-> in1, inB |-> in2, fs |-> fsys]

\* combineImages with the third offset forgetting the second image's width
combineCanvasOverlap(img1, img2, img3) ==
  LET width == Bounds(img1).Max.X + Bounds(img2).Max.X + Bounds(img3).Max.X
      height == intMax(intMax(Bounds(img1).Max.Y, Bounds(img2).Max.Y),
                       Bounds(img3).Max.Y)
      image2Offset == Point(Bounds(img1).Max.X, 0)
      image3Offset == Point(Bounds(img1).Max.X, 0)
      c0 == NewRGBA(Rect(0, 0, width, height))
      c1 == Draw(c0, Bounds(img1), img1, Point(0, 0))
      c2 == Draw(c1, RectAdd(Bounds(img2), image2Offset), img2, Point(0, 0))
  IN Draw(c2, RectAdd(Bounds(img3), image3Offset), img3, Point(0, 0))

\* the canvas combineImages builds from three non-nil images
combineCanvas(img1, img2, img3) ==
  LET width == Bounds(img1).Max.X + Bounds(img2).Max.X + Bounds(img3).Max.X
      height == intMax(intMax(Bounds(img1).Max.Y, Bounds(img2).Max.Y),
                       Bounds(img3).Max.Y)
      image2Offset == Point(Bounds(img1).Max.X, 0)
      image3Offset == Point(Bounds(img1).Max.X + Bounds(img2).Max.X, 0)
      c0 == NewRGBA(Rect(0, 0, width, height))
      c1 == Draw(c0, Bounds(img1), img1, Point(0, 0))
      c2 == Draw(c1, RectAdd(Bounds(img2), image2Offset), img2, Point(0, 0))
  IN Draw(c2, RectAdd(Bounds(img3), image3Offset), img3, Point(0, 0))

\* combineImages: panics on a nil image before anything is written
combineImages(fsys, img1, img2, img3, outputFile) ==
  IF IsNil(img1) \/ IsNil(img2) \/ IsNil(img3)
    THEN [panic |-> TRUE, fs |-> fsys]
    ELSE [panic |-> FALSE,
          fs |-> CreateAndEncode(fsys, outputFile, combineCanvas(img1, img2, img3))]

\* ------------------------------------------------------- the command line

\* the three positional arguments and the -compare default
inDir1 == <<"1">>
indDir2 == <<"2">>
outDir == <<"o">>
comparePath == "compare"

\* ------------------------------------------------------------------ state

VARIABLES
  fs,               \* the file system
  threads,          \* *threads, the worker count handed to fanOut
  proc,             \* the process: "running", "exit" (main returned),
                    \* "fatal" (log.Fatal) or "panic" (a goroutine panicked)
  files,            \* grabJobChannelGenerator: the listing ReadDir returned
  srcPc, srcIdx,    \* grabJobChannelGenerator's goroutine and its loop index
  chInClosed,       \* close(chOut) of grabJobChannelGenerator happened
  fltPc, fltJob,    \* performDiffJobTask(filterDiffJobs, chIn)'s goroutine
  chFilteredClosed, \* its close(chOut) happened
  wPc, wJob,        \* per worker: performDiffJobTask(diffFiles, chFiltered)
  wIn,              \* per worker: inA, inB of compareFiles
  chFannedClosed,   \* per worker: its close(chOut) happened
  fwdPc, fwdJob,    \* per worker stream: fanDiffJobsIn's forwarding goroutine
  wg,               \* fanDiffJobsIn's WaitGroup counter
  chOutClosed,      \* fanDiffJobsIn's close(chOut) happened
  emitted,          \* history: the jobs sent on chIn, in order
  dropped,          \* history: the jobs for which filterDiffJobs returned nil
  toolFailed,       \* history: the jobs whose external command failed
  written,          \* history: the paths combineImages wrote
  completed,        \* history: the jobs compareFiles returned for, in order
  printed,          \* history: the jobs main received and printed, in order
  crash,            \* history: the job and step of the panic, if any
  workerOf,         \* history: the worker that received each job
  lab,              \* the image functions applied to chosen pictures
  cli               \* main's handling of a chosen command line

pipeVars == <<fs, threads, proc, files, srcPc, srcIdx, chInClosed, fltPc, fltJob,
              chFilteredClosed, wPc, wJob, wIn, chFannedClosed, fwdPc, fwdJob,
              wg, chOutClosed, emitted, dropped, toolFailed, written, completed,
              printed, crash, workerOf>>

vars == <<pipeVars, lab, cli>>

\* ------------------------------------------------------------------- jobs

\* DiffJob
DiffJob(inFile1, inFile2, outFile, cmp) ==
  [inFile1 |-> inFile1, inFile2 |-> inFile2, outFile |-> outFile, comparePath |-> cmp]

NoJob == DiffJob(<<>>, <<>>, <<>>, "")
NoCrash == [job |-> NoJob, at |-> "none"]

\* the extension test accepting any extension
IsPngNameAnyExt(name) == Ext(name) # <<>>

\* grabJobChannelGenerator, the loop body: the extension test of line 85
IsPngName(name) == Ext(name) = PngExt

\* the job built with dir1 on both sides
grabJobSameDir(name) ==
  DiffJob(Join(inDir1, name), Join(inDir1, name), Join(outDir, name), comparePath)

\* grabJobChannelGenerator, the loop body: the job built for a file name
grabJob(name) ==
  DiffJob(Join(inDir1, name), Join(indDir2, name), Join(outDir, name), comparePath)

\* the names of the entries of a directory
NamesIn(fsys, dir) == {Base(p) : p \in {q \in DOMAIN fsys : q # dir /\ DirOf(q) = dir}}

\* a set of names as the sequence sorted by name
RECURSIVE SortedNames(_)
SortedNames(S) ==
  IF S = {} THEN <<>>
  ELSE LET m == CHOOSE x \in S : \A y \in S \ {x} : StrLess(x, y)
       IN <<m>> \o SortedNames(S \ {m})

\* ioutil.ReadDir succeeds on a directory and lists it sorted by file name
CanReadDir(fsys, dir) == dir \in DOMAIN fsys /\ fsys[dir].kind = "dir"
ReadDir(fsys, dir) == SortedNames(NamesIn(fsys, dir))

\* filterDiffJobs: the job, or NoJob for nil
filterDiffJobs(fsys, job) ==
  IF ~fileExists(fsys, job.inFile1) \/ ~fileExists(fsys, job.inFile2)
    THEN NoJob
    ELSE job

\* compareFiles: the temporary path
ResizePathShared(job) == Join(DirOf(job.outFile), TmpSuffix)

ResizePath(job) == job.outFile \o TmpSuffix

SeqToSet(s) == {s[i] : i \in 1..Len(s)}
Workers == 1..threads

\* ---------------------------------------------------------- initial states

NameA == <<"a", ".", "p", "n", "g">>
NameB == <<"b", ".", "p", "n", "g">>
NameC == <<"c", ".", "t", "x", "t">>

\* the picture heights of the pipeline's input files (their width is 1)
Heights == {1, 2}

NoEntry == [kind |-> "none", img |-> NilImage]
Pic(id, h) == PngEntry(Picture(id, 1, h))

\* what dir1 and dir2 hold under one name: two pictures of any heights, or a
\* picture on one side and nothing, a directory or an undecodable file on
\* the other
PairCases ==
  {<<Pic("1", h1), Pic("2", h2)>> : h1 \in Heights, h2 \in Heights}
  \cup {<<Pic("1", 1), NoEntry>>, <<NoEntry, Pic("2", 1)>>,
        <<Pic("1", 1), DirEntry>>, <<DirEntry, Pic("2", 1)>>,
        <<Pic("1", 1), JunkEntry>>, <<JunkEntry, Pic("2", 1)>>}

\* a composite a previous run left in outDir, or none
StaleCases == {NoEntry, Pic("S", 1)}

\* the file system holding the given <<path, entry>> pairs (NoEntry: absent)
FsFrom(S) ==
  LET T == {x \in S : x[2].kind # "none"}
  IN [p \in {x[1] : x \in T} |-> (CHOOSE x \in T : x[1] = p)[2]]

\* the state of the image functions' laboratory while the pipeline runs
LabIdle == [a |-> NilImage, b |-> NilImage, c |-> NilImage, step |-> "idle",
            canvas |-> NilImage, inA |-> <<>>, inB |-> <<>>,
            fs |-> FsFrom({})]

\* main's command line while no command line is being looked at
CliIdle == [argv |-> <<>>, ncpu |-> 0, step |-> "idle", threads |-> 0,
            compare |-> <<>>, rest |-> <<>>, dirs |-> <<>>]

\* the goroutines as main leaves them at line 45, with n workers
PipelineStart(n) ==
  /\ threads = n
  /\ proc = "running"
  /\ files = <<>>
  /\ srcPc = "readdir"
  /\ srcIdx = 1
  /\ chInClosed = FALSE
  /\ fltPc = "recv"
  /\ fltJob = NoJob
  /\ chFilteredClosed = FALSE
  /\ wPc = [w \in 1..n |-> "recv"]
  /\ wJob = [w \in 1..n |-> NoJob]
  /\ wIn = [w \in 1..n |-> <<<<>>, <<>>>>]
  /\ chFannedClosed = [w \in 1..n |-> FALSE]
  /\ fwdPc = [w \in 1..n |-> "recv"]
  /\ fwdJob = [w \in 1..n |-> NoJob]
  /\ wg = Cardinality(1..n)
  /\ chOutClosed = FALSE
  /\ emitted = <<>>
  /\ dropped = {}
  /\ toolFailed = {}
  /\ written = {}
  /\ completed = <<>>
  /\ printed = <<>>
  /\ crash = NoCrash
  /\ workerOf = [j \in {} |-> 0]

\* dir1 and dir2 exist; c.txt is a PNG picture in both, under a name that is
\* no .png name; outDir exists (os.MkdirAll, line 38)
InitListable ==
  \E ca \in PairCases, cb \in PairCases, stale \in StaleCases, n \in -1..MaxThreads :
    /\ fs = FsFrom({<<inDir1, DirEntry>>, <<indDir2, DirEntry>>, <<outDir, DirEntry>>,
                    <<Join(inDir1, NameA), ca[1]>>, <<Join(indDir2, NameA), ca[2]>>,
                    <<Join(inDir1, NameB), cb[1]>>, <<Join(indDir2, NameB), cb[2]>>,
                    <<Join(inDir1, NameC), Pic("1", 1)>>,
                    <<Join(indDir2, NameC), Pic("2", 1)>>,
                    <<Join(outDir, NameA), stale>>})
    /\ PipelineStart(n)
    /\ lab = LabIdle
    /\ cli = CliIdle

\* dir1 does not exist, or is a plain file
InitUnlistable ==
  \E d1 \in {NoEntry, JunkEntry}, n \in -1..MaxThreads :
    /\ fs = FsFrom({<<inDir1, d1>>, <<indDir2, DirEntry>>, <<outDir, DirEntry>>,
                    <<Join(indDir2, NameA), Pic("2", 1)>>})
    /\ PipelineStart(n)
    /\ lab = LabIdle
    /\ cli = CliIdle

Init == InitListable \/ InitUnlistable

\* ---------------------------------------------------------------- actions

Running == proc = "running"

\* ReadDir's error ignored: the loop runs over an empty listing
SourceReadDirIgnoringError ==
  /\ Running /\ srcPc = "readdir"
  /\ files' = IF CanReadDir(fs, inDir1) THEN ReadDir(fs, inDir1) ELSE <<>>
  /\ srcPc' = "loop"
  /\ UNCHANGED <<fs, threads, proc, srcIdx, chInClosed, fltPc, fltJob, chFilteredClosed,
                 wPc, wJob, wIn, chFannedClosed, fwdPc, fwdJob, wg, chOutClosed,
                 emitted, dropped, toolFailed, written, completed, printed, crash, lab, cli, workerOf>>

\* grabJobChannelGenerator, lines 78-82: ReadDir, log.Fatal on error
SourceReadDir ==
  /\ Running /\ srcPc = "readdir"
  /\ IF CanReadDir(fs, inDir1)
       THEN /\ files' = ReadDir(fs, inDir1)
            /\ srcPc' = "loop"
            /\ proc' = proc
       ELSE /\ proc' = "fatal"
            /\ UNCHANGED <<files, srcPc>>
  /\ UNCHANGED <<fs, threads, srcIdx, chInClosed, fltPc, fltJob, chFilteredClosed,
                 wPc, wJob, wIn, chFannedClosed, fwdPc, fwdJob, wg, chOutClosed,
                 emitted, dropped, toolFailed, written, completed, printed, crash, lab, cli, workerOf>>

\* lines 84-85: an entry whose extension is not ".png" is passed over
SourceSkip ==
  /\ Running /\ srcPc = "loop" /\ srcIdx <= Len(files)
  /\ ~IsPngName(files[srcIdx])
  /\ srcIdx' = srcIdx + 1
  /\ UNCHANGED <<fs, threads, proc, files, srcPc, chInClosed, fltPc, fltJob,
                 chFilteredClosed, wPc, wJob, wIn, chFannedClosed, fwdPc, fwdJob,
                 wg, chOutClosed, emitted, dropped, toolFailed, written, completed,
                 printed, crash, lab, cli, workerOf>>

\* lines 86-90 and 113: the send on the unbuffered chIn meets the filter's
\* receive
SourceSend ==
  /\ Running /\ srcPc = "loop" /\ srcIdx <= Len(files)
  /\ IsPngName(files[srcIdx])
  /\ fltPc = "recv"
  /\ fltJob' = grabJob(files[srcIdx])
  /\ fltPc' = "task"
  /\ emitted' = Append(emitted, grabJob(files[srcIdx]))
  /\ srcIdx' = srcIdx + 1
  /\ UNCHANGED <<fs, threads, proc, files, srcPc, chInClosed, chFilteredClosed,
                 wPc, wJob, wIn, chFannedClosed, fwdPc, fwdJob, wg, chOutClosed,
                 dropped, toolFailed, written, completed, printed, crash, lab, cli, workerOf>>

\* line 94: close(chOut) after the loop
SourceClose ==
  /\ Running /\ srcPc = "loop" /\ srcIdx > Len(files)
  /\ chInClosed' = TRUE
  /\ srcPc' = "done"
  /\ UNCHANGED <<fs, threads, proc, files, srcIdx, fltPc, fltJob, chFilteredClosed,
                 wPc, wJob, wIn, chFannedClosed, fwdPc, fwdJob, wg, chOutClosed,
                 emitted, dropped, toolFailed, written, completed, printed, crash, lab, cli, workerOf>>

\* performDiffJobTask line 114 with task = filterDiffJobs: nil drops the job
FilterTask ==
  /\ Running /\ fltPc = "task"
  /\ LET job == filterDiffJobs(fs, fltJob)
     IN IF job = NoJob
          THEN /\ dropped' = dropped \cup {fltJob}
               /\ fltPc' = "recv"
               /\ fltJob' = NoJob
          ELSE /\ fltPc' = "send"
               /\ fltJob' = job
               /\ dropped' = dropped
  /\ UNCHANGED <<fs, threads, proc, files, srcPc, srcIdx, chInClosed,
                 chFilteredClosed, wPc, wJob, wIn, chFannedClosed, fwdPc, fwdJob,
                 wg, chOutClosed, emitted, toolFailed, written, completed, printed,
                 crash, lab, cli, workerOf>>

\* line 115 of the filter meets line 113 of worker w on chFiltered
FilterSendSkipTask(w) ==
  /\ Running /\ fltPc = "send" /\ wPc[w] = "recv"
  /\ wJob' = [wJob EXCEPT ![w] = fltJob]
  /\ wPc' = [wPc EXCEPT ![w] = "send"]
  /\ fltPc' = "recv"
  /\ fltJob' = NoJob
  /\ workerOf' = [j \in DOMAIN workerOf \cup {fltJob} |->
                    IF j = fltJob THEN w ELSE workerOf[j]]
  /\ UNCHANGED <<fs, threads, proc, files, srcPc, srcIdx, chInClosed,
                 chFilteredClosed, wIn, chFannedClosed, fwdPc, fwdJob, wg,
                 chOutClosed, emitted, dropped, toolFailed, written, completed,
                 printed, crash, lab, cli>>

FilterSend(w) ==
  /\ Running /\ fltPc = "send" /\ wPc[w] = "recv"
  /\ wJob' = [wJob EXCEPT ![w] = fltJob]
  /\ wPc' = [wPc EXCEPT ![w] = "normalize"]
  /\ fltPc' = "recv"
  /\ fltJob' = NoJob
  /\ workerOf' = [j \in DOMAIN workerOf \cup {fltJob} |->
                    IF j = fltJob THEN w ELSE workerOf[j]]
  /\ UNCHANGED <<fs, threads, proc, files, srcPc, srcIdx, chInClosed,
                 chFilteredClosed, wIn, chFannedClosed, fwdPc, fwdJob, wg,
                 chOutClosed, emitted, dropped, toolFailed, written, completed,
                 printed, crash, lab, cli>>

\* lines 113 and 118 of the filter: chIn is closed and drained
FilterClose ==
  /\ Running /\ fltPc = "recv" /\ chInClosed
  /\ chFilteredClosed' = TRUE
  /\ fltPc' = "done"
  /\ UNCHANGED <<fs, threads, proc, files, srcPc, srcIdx, chInClosed, fltJob,
                 wPc, wJob, wIn, chFannedClosed, fwdPc, fwdJob, wg, chOutClosed,
                 emitted, dropped, toolFailed, written, completed, printed, crash, lab, cli, workerOf>>

\* compareFiles line 164: commonSizeImageLengths; a nil image panics
WorkerNormalize(w) ==
  /\ Running /\ wPc[w] = "normalize"
  /\ LET r == commonSizeImageLengths(fs, wJob[w].inFile1, wJob[w].inFile2,
                                     ResizePath(wJob[w]))
     IN IF r.panic
          THEN /\ proc' = "panic"
               /\ crash' = [job |-> wJob[w], at |-> "normalize"]
               /\ UNCHANGED <<fs, wPc, wIn>>
          ELSE /\ fs' = r.fs
               /\ wIn' = [wIn EXCEPT ![w] = <<r.inA, r.inB>>]
               /\ wPc' = [wPc EXCEPT ![w] = "exec"]
               /\ UNCHANGED <<proc, crash>>
  /\ UNCHANGED <<threads, files, srcPc, srcIdx, chInClosed, fltPc, fltJob,
                 chFilteredClosed, wJob, chFannedClosed, fwdPc, fwdJob, wg,
                 chOutClosed, emitted, dropped, toolFailed, written, completed,
                 printed, lab, cli, workerOf>>

\* the external command can produce a diff of two decodable images of the
\* same size; the diff has that size
CanCompare(fsys, inA, inB) ==
  LET imgA == loadAndDecodePng(fsys, inA)
      imgB == loadAndDecodePng(fsys, inB)
  IN ~IsNil(imgA) /\ ~IsNil(imgB) /\ imgA.w = imgB.w /\ imgA.h = imgB.h

DiffOf(fsys, inA) == Picture("D", loadAndDecodePng(fsys, inA).w, loadAndDecodePng(fsys, inA).h)

\* compareFiles lines 167-172: the command either writes the diff to outFile
\* or fails (unreachable executable, non-zero exit) and writes nothing; the
\* error is ignored
WorkerExec(w) ==
  /\ Running /\ wPc[w] = "exec"
  /\ \/ /\ CanCompare(fs, wIn[w][1], wIn[w][2])
        /\ fs' = CreateAndEncode(fs, wJob[w].outFile, DiffOf(fs, wIn[w][1]))
        /\ toolFailed' = toolFailed
     \/ /\ toolFailed' = toolFailed \cup {wJob[w]}
        /\ fs' = fs
  /\ wPc' = [wPc EXCEPT ![w] = "combine"]
  /\ UNCHANGED <<threads, proc, files, srcPc, srcIdx, chInClosed, fltPc, fltJob,
                 chFilteredClosed, wJob, wIn, chFannedClosed, fwdPc, fwdJob, wg,
                 chOutClosed, emitted, dropped, written, completed, printed,
                 crash, lab, cli, workerOf>>

\* compareFiles lines 175-180: load the three images, combineImages
WorkerCombine(w) ==
  /\ Running /\ wPc[w] = "combine"
  /\ LET img1 == loadAndDecodePng(fs, wIn[w][1])
         img2 == loadAndDecodePng(fs, wIn[w][2])
         imgDiff == loadAndDecodePng(fs, wJob[w].outFile)
         r == combineImages(fs, img1, imgDiff, img2, wJob[w].outFile)
     IN IF r.panic
          THEN /\ proc' = "panic"
               /\ crash' = [job |-> wJob[w], at |-> "combine"]
               /\ UNCHANGED <<fs, wPc, written>>
          ELSE /\ fs' = r.fs
               /\ written' = IF r.fs # fs THEN written \cup {wJob[w].outFile}
                                           ELSE written
               /\ wPc' = [wPc EXCEPT ![w] = "remove"]
               /\ UNCHANGED <<proc, crash>>
  /\ UNCHANGED <<threads, files, srcPc, srcIdx, chInClosed, fltPc, fltJob,
                 chFilteredClosed, wJob, wIn, chFannedClosed, fwdPc, fwdJob, wg,
                 chOutClosed, emitted, dropped, toolFailed, completed, printed, lab, cli, workerOf>>

WorkerRemoveKeepsTmp(w) ==
  /\ Running /\ wPc[w] = "remove"
  /\ fs' = fs
  /\ completed' = Append(completed, wJob[w])
  /\ wPc' = [wPc EXCEPT ![w] = "send"]
  /\ UNCHANGED <<threads, proc, files, srcPc, srcIdx, chInClosed, fltPc, fltJob,
                 chFilteredClosed, wJob, wIn, chFannedClosed, fwdPc, fwdJob, wg,
                 chOutClosed, emitted, dropped, toolFailed, written, printed,
                 crash, lab, cli, workerOf>>

\* compareFiles line 183: os.Remove(resize); compareFiles and diffFiles return
WorkerRemove(w) ==
  /\ Running /\ wPc[w] = "remove"
  /\ fs' = Remove(fs, ResizePath(wJob[w]))
  /\ completed' = Append(completed, wJob[w])
  /\ wPc' = [wPc EXCEPT ![w] = "send"]
  /\ UNCHANGED <<threads, proc, files, srcPc, srcIdx, chInClosed, fltPc, fltJob,
                 chFilteredClosed, wJob, wIn, chFannedClosed, fwdPc, fwdJob, wg,
                 chOutClosed, emitted, dropped, toolFailed, written, printed,
                 crash, lab, cli, workerOf>>

\* line 115 of worker w meets line 132 of its forwarder
WorkerSend(w) ==
  /\ Running /\ wPc[w] = "send" /\ fwdPc[w] = "recv"
  /\ fwdJob' = [fwdJob EXCEPT ![w] = wJob[w]]
  /\ fwdPc' = [fwdPc EXCEPT ![w] = "send"]
  /\ wPc' = [wPc EXCEPT ![w] = "recv"]
  /\ wJob' = [wJob EXCEPT ![w] = NoJob]
  /\ UNCHANGED <<fs, threads, proc, files, srcPc, srcIdx, chInClosed, fltPc, fltJob,
                 chFilteredClosed, wIn, chFannedClosed, wg, chOutClosed, emitted,
                 dropped, toolFailed, written, completed, printed, crash, lab, cli, workerOf>>

\* lines 113 and 118 of worker w: chFiltered is closed and drained
WorkerClose(w) ==
  /\ Running /\ wPc[w] = "recv" /\ chFilteredClosed
  /\ chFannedClosed' = [chFannedClosed EXCEPT ![w] = TRUE]
  /\ wPc' = [wPc EXCEPT ![w] = "done"]
  /\ UNCHANGED <<fs, threads, proc, files, srcPc, srcIdx, chInClosed, fltPc, fltJob,
                 chFilteredClosed, wJob, wIn, fwdPc, fwdJob, wg, chOutClosed,
                 emitted, dropped, toolFailed, written, completed, printed, crash, lab, cli, workerOf>>

\* fanDiffJobsIn line 133 meets main's range at line 45, which prints the
\* job (line 46); a send on a closed channel panics
ForwardSend(w) ==
  /\ Running /\ fwdPc[w] = "send"
  /\ IF chOutClosed
       THEN /\ proc' = "panic"
            /\ crash' = [job |-> fwdJob[w], at |-> "forward"]
            /\ UNCHANGED <<fwdPc, fwdJob, printed>>
       ELSE /\ printed' = Append(printed, fwdJob[w])
            /\ fwdPc' = [fwdPc EXCEPT ![w] = "recv"]
            /\ fwdJob' = [fwdJob EXCEPT ![w] = NoJob]
            /\ UNCHANGED <<proc, crash>>
  /\ UNCHANGED <<fs, threads, files, srcPc, srcIdx, chInClosed, fltPc, fltJob,
                 chFilteredClosed, wPc, wJob, wIn, chFannedClosed, wg, chOutClosed,
                 emitted, dropped, toolFailed, written, completed, lab, cli, workerOf>>

\* fanDiffJobsIn lines 132 and 135: the worker stream is closed, wg.Done()
ForwardDone(w) ==
  /\ Running /\ fwdPc[w] = "recv" /\ chFannedClosed[w]
  /\ wg' = wg - 1
  /\ fwdPc' = [fwdPc EXCEPT ![w] = "done"]
  /\ UNCHANGED <<fs, threads, proc, files, srcPc, srcIdx, chInClosed, fltPc, fltJob,
                 chFilteredClosed, wPc, wJob, wIn, chFannedClosed, fwdJob,
                 chOutClosed, emitted, dropped, toolFailed, written, completed,
                 printed, crash, lab, cli, workerOf>>

\* close(chOut) without waiting for the WaitGroup
CloseWithoutWait ==
  /\ Running /\ ~chOutClosed
  /\ chOutClosed' = TRUE
  /\ UNCHANGED <<fs, threads, proc, files, srcPc, srcIdx, chInClosed, fltPc, fltJob,
                 chFilteredClosed, wPc, wJob, wIn, chFannedClosed, fwdPc, fwdJob,
                 wg, emitted, dropped, toolFailed, written, completed, printed,
                 crash, lab, cli, workerOf>>

WaitAndCloseNeedsWorker ==
  /\ Running /\ wg = 0 /\ threads >= 1 /\ ~chOutClosed
  /\ chOutClosed' = TRUE
  /\ UNCHANGED <<fs, threads, proc, files, srcPc, srcIdx, chInClosed, fltPc, fltJob,
                 chFilteredClosed, wPc, wJob, wIn, chFannedClosed, fwdPc, fwdJob,
                 wg, emitted, dropped, toolFailed, written, completed, printed,
                 crash, lab, cli, workerOf>>

\* fanDiffJobsIn lines 140-143: wg.Wait() returns at zero, close(chOut)
WaitAndClose ==
  /\ Running /\ wg = 0 /\ ~chOutClosed
  /\ chOutClosed' = TRUE
  /\ UNCHANGED <<fs, threads, proc, files, srcPc, srcIdx, chInClosed, fltPc, fltJob,
                 chFilteredClosed, wPc, wJob, wIn, chFannedClosed, fwdPc, fwdJob,
                 wg, emitted, dropped, toolFailed, written, completed, printed,
                 crash, lab, cli, workerOf>>

\* main lines 45-49: the range ends on the closed chOut, main returns and
\* the process exits with every goroutine left where it is
MainReturn ==
  /\ Running /\ chOutClosed
  /\ proc' = "exit"
  /\ UNCHANGED <<fs, threads, files, srcPc, srcIdx, chInClosed, fltPc, fltJob,
                 chFilteredClosed, wPc, wJob, wIn, chFannedClosed, fwdPc, fwdJob,
                 wg, chOutClosed, emitted, dropped, toolFailed, written, completed,
                 printed, crash, lab, cli, workerOf>>

Next ==
  \/ SourceReadDir
  \/ SourceSkip
  \/ SourceSend
  \/ SourceClose
  \/ FilterTask
  \/ FilterClose
  \/ \E w \in Workers : FilterSend(w)
  \/ \E w \in Workers : WorkerNormalize(w)
  \/ \E w \in Workers : WorkerExec(w)
  \/ \E w \in Workers : WorkerCombine(w)
  \/ \E w \in Workers : WorkerRemove(w)
  \/ \E w \in Workers : WorkerSend(w)
  \/ \E w \in Workers : WorkerClose(w)
  \/ \E w \in Workers : ForwardSend(w)
  \/ \E w \in Workers : ForwardDone(w)
  \/ WaitAndClose
  \/ MainReturn

Spec == Init /\ [][Next]_vars

\* ------------------------------------------- the image functions on their own

\* a second specification: combineImages and commonSizeImageLengths applied
\* to three decodable pictures of every size up to MaxDim x MaxDim

Dims == 1..MaxDim
LabIn1 == Join(inDir1, NameA)
LabIn2 == Join(indDir2, NameA)
LabOut == Join(outDir, NameA)
LabTmp == ResizePath(grabJob(NameA))

LabFs(a, b) ==
  FsFrom({<<inDir1, DirEntry>>, <<indDir2, DirEntry>>, <<outDir, DirEntry>>,
          <<LabIn1, PngEntry(a)>>, <<LabIn2, PngEntry(b)>>})

InitImg ==
  /\ fs = FsFrom({})
  /\ PipelineStart(0)
  /\ cli = CliIdle
  /\ \E wa \in Dims, ha \in Dims, wb \in Dims, hb \in Dims, wc \in Dims, hc \in Dims :
       lab = [a |-> Picture("A", wa, ha), b |-> Picture("B", wb, hb),
              c |-> Picture("C", wc, hc), step |-> "start",
              canvas |-> NilImage, inA |-> <<>>, inB |-> <<>>,
              fs |-> LabFs(Picture("A", wa, ha), Picture("B", wb, hb))]

\* combineImages(a, b, c, outFile), then the composite is read back
LabCombine ==
  /\ lab.step = "start"
  /\ LET r == combineImages(lab.fs, lab.a, lab.b, lab.c, LabOut)
     IN lab' = [lab EXCEPT !.step = "combined", !.fs = r.fs,
                           !.canvas = loadAndDecodePng(r.fs, LabOut)]
  /\ UNCHANGED <<pipeVars, cli>>

\* commonSizeImageLengths(in1, in2, tmp) on the files holding a and b
LabNormalize ==
  /\ lab.step = "start"
  /\ LET r == commonSizeImageLengths(lab.fs, LabIn1, LabIn2, LabTmp)
     IN lab' = [lab EXCEPT !.step = "normalized", !.fs = r.fs,
                           !.inA = r.inA, !.inB = r.inB]
  /\ UNCHANGED <<pipeVars, cli>>

NextImg == LabCombine \/ LabNormalize

SpecImg == InitImg /\ [][NextImg]_vars

\* ----------------------------------------------------------------- claims

\* the words of the claims, stated on the file system directly
RegularFile(p) == p \in DOMAIN fs /\ fs[p].kind # "dir"
Decodable(p) == p \in DOMAIN fs /\ fs[p].kind = "png"
PngNamesOfDir1 == {n \in NamesIn(fs, inDir1) : Ext(n) = PngExt}
MatchedNames ==
  {n \in PngNamesOfDir1 : RegularFile(Join(inDir1, n)) /\ RegularFile(Join(indDir2, n))}
MatchedOutputs == {Join(outDir, n) : n \in MatchedNames}
AllDecodable ==
  \A n \in MatchedNames : Decodable(Join(inDir1, n)) /\ Decodable(Join(indDir2, n))
JobOf(n) ==
  [inFile1 |-> inDir1 \o <<"/">> \o n, inFile2 |-> indDir2 \o <<"/">> \o n,
   outFile |-> outDir \o <<"/">> \o n, comparePath |-> "compare"]
NoDuplicates(s) == \A i, k \in 1..Len(s) : i # k => s[i] # s[k]
Listable == inDir1 \in DOMAIN fs /\ fs[inDir1].kind = "dir"

\* C1: when a run with N >= 1 workers ends, every image decodable and the
\* external command never failing, the composites written are exactly
\* outDir/name for the names with extension .png in dir1 that are regular
\* files in dir1 and in dir2, each written by one job, and no temporary
\* file is left behind.
C1_OutputsAreMatchedPairs ==
  (proc = "exit" /\ threads >= 1 /\ toolFailed = {} /\ AllDecodable) =>
    /\ written = MatchedOutputs
    /\ Len(completed) = Cardinality(MatchedOutputs)
    /\ NoDuplicates(completed)
    /\ \A p \in MatchedOutputs : Decodable(p) /\ (p \o TmpSuffix) \notin DOMAIN fs

\* C1 witness: the example of the claim, a.png on both sides and b.png in
\* dir1 only, has run to its end and written out/a.png alone.
C1_Witness ==
  /\ proc = "exit" /\ threads = 2 /\ toolFailed = {}
  /\ Join(inDir1, NameB) \in DOMAIN fs
  /\ Join(indDir2, NameB) \notin DOMAIN fs
  /\ written = {Join(outDir, NameA)}

\* C2 (as claimed): a job whose external command failed never brings the
\* process down in its composite step.
C2_ToolFailureTolerated ==
  crash.at = "combine" => crash.job \notin toolFailed

\* C3 (as claimed): an input that fails to decode never stops the process:
\* the worker goes on past commonSizeImageLengths.
C3_DecodeFailureIsLocal ==
  crash.at # "normalize"

\* what one worker produces when the external command works: the matched
\* jobs in listing order up to the first one with an undecodable input
RECURSIVE DecodablePrefix(_)
DecodablePrefix(names) ==
  IF names = <<>> THEN <<>>
  ELSE IF Decodable(Join(inDir1, Head(names))) /\ Decodable(Join(indDir2, Head(names)))
    THEN <<Head(names)>> \o DecodablePrefix(Tail(names))
    ELSE <<>>
SequentialNames == SeqToSet(DecodablePrefix(SortedNames(MatchedNames)))

\* C4 (as claimed): whatever the number of workers N >= 1 and the
\* interleaving, a run on the same directories ends with the same set of
\* files written and the same set of jobs on the combined stream (those of
\* the one-worker run), the external command working throughout.
C4_SameOutputsForEveryN ==
  (proc \in {"exit", "panic"} /\ threads >= 1 /\ toolFailed = {}) =>
    /\ written = {Join(outDir, n) : n \in SequentialNames}
    /\ SeqToSet(printed) = {JobOf(n) : n \in SequentialNames}

\* the jobs the source emits over a whole run
AllJobs == IF Listable THEN {JobOf(n) : n \in PngNamesOfDir1} ELSE {}
Settled(j) ==
  j \in dropped \/ (j \in SeqToSet(completed) /\ j \in SeqToSet(printed))

\* C5 (as claimed): the combined stream is closed only after every worker
\* stream is closed and every job of the source has been dropped by the
\* filter or processed by a worker and forwarded.
C5_ClosedAfterAllProcessed ==
  chOutClosed =>
    /\ \A w \in Workers : chFannedClosed[w]
    /\ \A j \in AllJobs : Settled(j)

\* C5 (amended): the combined stream is closed only after every worker
\* stream is closed; with N >= 1 workers that is only after every job of
\* the source has been dropped by the filter or processed and forwarded.
C5_ClosedAfterAllProcessedN1 ==
  chOutClosed =>
    /\ \A w \in Workers : chFannedClosed[w]
    /\ threads >= 1 => (srcPc = "done" /\ \A j \in AllJobs : Settled(j))

\* C5 witness: two workers, one job dropped and one processed, stream closed.
C5_Witness ==
  /\ chOutClosed /\ threads = 2
  /\ Cardinality(dropped) = 1 /\ Len(printed) = 1

\* C6: the filter hands on a job, fields unchanged, iff both inputs exist
\* and are no directories; a dropped job reaches no worker, is never
\* completed or printed, and nothing is written for it.
C6_FilterPassesIffBothExist ==
  /\ \A j \in dropped :
       /\ ~(RegularFile(j.inFile1) /\ RegularFile(j.inFile2))
       /\ j \notin SeqToSet(completed) /\ j \notin SeqToSet(printed)
       /\ j.outFile \notin written
       /\ \A w \in Workers : wJob[w] # j /\ fwdJob[w] # j
  /\ \A j \in SeqToSet(emitted) :
       (RegularFile(j.inFile1) /\ RegularFile(j.inFile2)) => j \notin dropped
  /\ fltPc = "send" =>
       /\ fltJob = emitted[Len(emitted)]
       /\ RegularFile(fltJob.inFile1) /\ RegularFile(fltJob.inFile2)
  /\ \A w \in Workers : wJob[w] # NoJob =>
       /\ wJob[w] \in SeqToSet(emitted)
       /\ RegularFile(wJob[w].inFile1) /\ RegularFile(wJob[w].inFile2)

\* C6 witness: one job has been dropped and the next is being handed on.
C6_Witness ==
  /\ Cardinality(dropped) = 1 /\ fltPc = "send"
  /\ \E j \in dropped : fs[j.inFile1].kind = "dir"

\* C7: the source emits one job per entry of dir1 with extension .png, no
\* other and none twice, each pairing dir1/name with dir2/name and
\* outDir/name, whether or not dir2/name exists, and closes its stream
\* after the last.
C7_OneJobPerPngEntry ==
  /\ SeqToSet(emitted) \subseteq {JobOf(n) : n \in PngNamesOfDir1}
  /\ NoDuplicates(emitted)
  /\ chInClosed <=> srcPc = "done"
  /\ srcPc = "done" => SeqToSet(emitted) = {JobOf(n) : n \in PngNamesOfDir1}

\* C7 witness: the source is done, having emitted two jobs, one of them for
\* a name that dir2 does not hold.
C7_Witness ==
  /\ srcPc = "done" /\ Len(emitted) = 2
  /\ \E i \in 1..Len(emitted) : emitted[i].inFile2 \notin DOMAIN fs

\* C8 (as claimed): if dir1 cannot be listed the process ends by the fatal
\* error and in no other way, no job is emitted, no worker processes
\* anything and no composite is written.
C8_UnlistableIsFatal ==
  ~Listable =>
    /\ proc \in {"running", "fatal"}
    /\ srcPc = "readdir" /\ emitted = <<>>
    /\ \A w \in Workers : wPc[w] = "recv"
    /\ written = {} /\ completed = <<>> /\ printed = <<>>

\* C8 (amended): if dir1 cannot be listed, no job is emitted, no worker
\* processes anything and no composite is written; with N >= 1 workers the
\* process ends by the fatal error and in no other way (with no worker,
\* main may return first).
C8_UnlistableIsFatalN1 ==
  ~Listable =>
    /\ threads >= 1 => (proc \in {"running", "fatal"} /\ ~chOutClosed)
    /\ srcPc = "readdir" /\ emitted = <<>>
    /\ \A w \in Workers : wPc[w] = "recv"
    /\ written = {} /\ completed = <<>> /\ printed = <<>>

\* C8 witness: dir1 is missing and the process has died of the fatal error.
C8_Witness ==
  ~Listable /\ proc = "fatal" /\ threads = 2

Max3(x, y, z) == CHOOSE m \in {x, y, z} : \A k \in {x, y, z} : m >= k

\* C9: the composite of a, b, c is width(a)+width(b)+width(c) wide and
\* max(height) high; a's pixels lie at x-offset 0, b's at width(a), c's at
\* width(a)+width(b), all from y = 0, and every other pixel is blank.
C9_CombineLayout ==
  lab.step = "combined" =>
    LET a == lab.a
        b == lab.b
        c == lab.c
        v == lab.canvas
    IN /\ v.w = a.w + b.w + c.w
       /\ v.h = Max3(a.h, b.h, c.h)
       /\ DOMAIN v.px = (0..v.w - 1) \X (0..v.h - 1)
       /\ \A p \in DOMAIN v.px :
            v.px[p] = IF p[1] < a.w
                        THEN (IF p[2] < a.h THEN <<"A", p[1], p[2]>> ELSE ZeroPixel)
                      ELSE IF p[1] < a.w + b.w
                        THEN (IF p[2] < b.h THEN <<"B", p[1] - a.w, p[2]>> ELSE ZeroPixel)
                      ELSE (IF p[2] < c.h THEN <<"C", p[1] - a.w - b.w, p[2]>>
                                          ELSE ZeroPixel)

\* C9 witness: three pictures of different shapes have been combined.
C9_Witness ==
  /\ lab.step = "combined"
  /\ lab.a.w = 1 /\ lab.a.h = 2 /\ lab.b.w = 2 /\ lab.b.h = 1 /\ lab.c.w = 2 /\ lab.c.h = 2

NormA == loadAndDecodePng(lab.fs, lab.inA)
NormB == loadAndDecodePng(lab.fs, lab.inB)

\* C10 (as claimed): the two paths commonSizeImageLengths returns hold
\* images of the same width and the same height.
C10_SameDimensions ==
  lab.step = "normalized" => (NormA.w = NormB.w /\ NormA.h = NormB.h)

\* C10 (amended): the two returned paths hold decodable images of the same
\* height; they have the same width too when the input heights differ (the
\* shorter is redrawn on a canvas of the taller's bounds), while inputs of
\* equal height are returned as they are, each with its own width.
C10_SameHeight ==
  lab.step = "normalized" =>
    /\ ~IsNil(NormA) /\ ~IsNil(NormB)
    /\ NormA.h = NormB.h
    /\ lab.a.h # lab.b.h => NormA.w = NormB.w
    /\ lab.a.h = lab.b.h => (NormA = lab.a /\ NormB = lab.b)

\* C10 witness: two pictures of different heights and widths were normalized.
C10_Witness ==
  /\ lab.step = "normalized"
  /\ lab.a.h # lab.b.h /\ lab.a.w # lab.b.w


\* the shorter of the two normalized pictures, and the canvas written for it
LabShorter == IF lab.a.h < lab.b.h THEN lab.a ELSE lab.b
LabPadded == loadAndDecodePng(lab.fs, LabTmp)

\* C11 (as claimed): whenever the shorter picture is padded, the canvas
\* written holds every pixel of the shorter picture, unchanged, at the same
\* coordinates, whatever the two sizes.
C11_PaddingNeverCrops ==
  (lab.step = "normalized" /\ lab.a.h # lab.b.h) =>
    /\ ~IsNil(LabPadded)
    /\ \A p \in DOMAIN LabShorter.px :
         p \in DOMAIN LabPadded.px /\ LabPadded.px[p] = LabShorter.px[p]

\* C12: two pictures of equal height come back under their own paths and
\* nothing is written; otherwise the shorter one's path alone is replaced
\* by the temporary path, and both input files stay as they were.
C12_EqualHeightsUntouched ==
  lab.step = "normalized" =>
    /\ lab.a.h = lab.b.h =>
         (lab.inA = LabIn1 /\ lab.inB = LabIn2 /\ LabTmp \notin DOMAIN lab.fs)
    /\ lab.a.h > lab.b.h =>
         (lab.inA = LabIn1 /\ lab.inB = LabTmp /\ LabTmp \in DOMAIN lab.fs)
    /\ lab.a.h < lab.b.h =>
         (lab.inA = LabTmp /\ lab.inB = LabIn2 /\ LabTmp \in DOMAIN lab.fs)
    /\ lab.fs[LabIn1] = PngEntry(lab.a) /\ lab.fs[LabIn2] = PngEntry(lab.b)
    /\ DOMAIN lab.fs \subseteq {inDir1, indDir2, outDir, LabIn1, LabIn2, LabTmp}

\* C12 witness: two pictures of equal height and different widths were
\* normalized.
C12_Witness ==
  lab.step = "normalized" /\ lab.a.h = lab.b.h /\ lab.a.w # lab.b.w


\* ---------------------------------------------------------------------
\* The command line: main lines 19-36
\* ---------------------------------------------------------------------

Digits == <<"0", "1", "2", "3", "4", "5", "6", "7", "8", "9">>
IsDigit(c) == \E i \in 1..Len(Digits) : Digits[i] = c
DigitVal(c) == (CHOOSE i \in 1..Len(Digits) : Digits[i] = c) - 1

\* the decimal numeral of k, for k a single digit
Num(k) == <<Digits[k + 1]>>

RECURSIVE DecimalValue(_, _)
DecimalValue(s, acc) ==
  IF s = <<>> THEN acc
  ELSE DecimalValue(Tail(s), acc * Len(Digits) + DigitVal(Head(s)))

\* the value of an int flag: an optional sign and decimal digits
ParseInt(s) ==
  LET neg == s # <<>> /\ Head(s) = "-"
      body == IF neg THEN Tail(s) ELSE s
  IN IF body = <<>> \/ \E i \in 1..Len(body) : ~IsDigit(body[i])
       THEN [ok |-> FALSE, val |-> 0]
       ELSE [ok |-> TRUE,
             val |-> IF neg THEN 0 - DecimalValue(body, 0) ELSE DecimalValue(body, 0)]

\* the flags main defines at lines 21 and 22
ThreadsFlag == <<"t">>
CompareFlag == <<"c", "o", "m", "p", "a", "r", "e">>
CompareDefault == <<"c", "o", "m", "p", "a", "r", "e">>

\* the place of the first "=" of a flag token's body after its first
\* character, 0 if it has none
EqualsAt(body) ==
  IF \E i \in 2..Len(body) : body[i] = "="
    THEN CHOOSE i \in 2..Len(body) :
           body[i] = "=" /\ \A k \in 2..(i - 1) : body[k] # "="
    ELSE 0

\* flag.Parse (line 24) over the arguments after the program name: flags
\* are taken up to the first argument that is no flag; the rest are the
\* positional arguments
RECURSIVE FlagParse(_, _, _)
FlagParse(args, th, cmp) ==
  IF args = <<>>
    THEN [err |-> FALSE, threads |-> th, compare |-> cmp, rest |-> <<>>]
  ELSE LET s == Head(args) IN
    IF Len(s) < 2 \/ s[1] # "-"
      THEN [err |-> FALSE, threads |-> th, compare |-> cmp, rest |-> args]
    ELSE IF s = <<"-", "-">>
      THEN [err |-> FALSE, threads |-> th, compare |-> cmp, rest |-> Tail(args)]
    ELSE
      LET body == IF s[2] = "-" THEN SubSeq(s, 3, Len(s)) ELSE Tail(s)
          eq   == EqualsAt(body)
          name == IF eq = 0 THEN body ELSE SubSeq(body, 1, eq - 1)
          val  == IF eq # 0 THEN SubSeq(body, eq + 1, Len(body))
                  ELSE IF Len(args) >= 2 THEN args[2] ELSE <<>>
          more == IF eq # 0 THEN Tail(args)
                  ELSE IF Len(args) >= 2 THEN Tail(Tail(args)) ELSE <<>>
          bad  == [err |-> TRUE, threads |-> th, compare |-> cmp, rest |-> <<>>]
      IN IF body[1] \in {"-", "="} THEN bad
         ELSE IF name \notin {ThreadsFlag, CompareFlag} THEN bad
         ELSE IF eq = 0 /\ Len(args) < 2 THEN bad
         ELSE IF name = ThreadsFlag
           THEN IF ParseInt(val).ok
                  THEN FlagParse(more, ParseInt(val).val, cmp)
                  ELSE bad
           ELSE FlagParse(more, th, val)

\* lines 21-24: the flags are defined with their defaults and parsed; a
\* flag error ends the process
CliParse ==
  /\ cli.step = "start"
  /\ LET r == FlagParse(Tail(cli.argv), cli.ncpu, CompareDefault)
     IN cli' = [cli EXCEPT !.step = IF r.err THEN "flagerror" ELSE "parsed",
                           !.threads = r.threads,
                           !.compare = r.compare,
                           !.rest = r.rest]
  /\ UNCHANGED <<pipeVars, lab>>

\* lines 26-36: usage and exit 0 unless os.Args has four elements, else
\* the directories are its elements 1, 2 and 3
CliCheckArgs ==
  /\ cli.step = "parsed"
  /\ cli' = IF Len(cli.argv) # 4
              THEN [cli EXCEPT !.step = "usage"]
              ELSE [cli EXCEPT !.step = "run",
                               !.dirs = <<cli.argv[2], cli.argv[3], cli.argv[4]>>]
  /\ UNCHANGED <<pipeVars, lab>>

\* the command lines looked at: the program name, then nothing, -t K,
\* -t=K or a flag that is in error, then nothing or -compare P, then two,
\* three or four directory names
ProgramName == <<"i", "d", "i", "f", "f">>
OtherCompare == <<"c", "m", "p">>
ThreadFlagCases ==
  {<<>>, <<<<"-", "x">>>>, <<<<"-", "t", "=", "x">>>>}
  \cup {<<<<"-", "t">>, Num(k)>> : k \in 0..MaxThreads}
  \cup {<<<<"-", "t", "=">> \o Num(k)>> : k \in 0..MaxThreads}
CompareFlagCases == {<<>>, <<<<"-">> \o CompareFlag, OtherCompare>>}
PositionalCases ==
  {<<inDir1, indDir2>>, <<inDir1, indDir2, outDir>>,
   <<inDir1, indDir2, outDir, OtherCompare>>}
ArgvCases ==
  {<<ProgramName>> \o t \o c \o p :
     t \in ThreadFlagCases, c \in CompareFlagCases, p \in PositionalCases}

InitCli ==
  /\ fs = FsFrom({})
  /\ PipelineStart(0)
  /\ lab = LabIdle
  /\ \E argv \in ArgvCases, n \in 1..MaxThreads :
       cli = [argv |-> argv, ncpu |-> n, step |-> "start", threads |-> n,
              compare |-> CompareDefault, rest |-> <<>>, dirs |-> <<>>]

NextCli == CliParse \/ CliCheckArgs

SpecCLI == InitCli /\ [][NextCli]_vars

\* C16 (as claimed): a command line whose flags parse and are followed by
\* exactly three positional arguments runs on those three directories
\* with the parsed -t value (default: the CPU count) and compare path;
\* usage is printed only for another number of positional arguments.
C16_CommandLineContract ==
  cli.step \in {"run", "usage"} =>
    /\ Len(cli.rest) = 3 <=> cli.step = "run"
    /\ cli.step = "run" => cli.dirs = cli.rest

\* ---------------------------------------------------------------------
\* C13
\* ---------------------------------------------------------------------

\* the place of job j in a sequence that holds it once
Pos(seq, j) == CHOOSE i \in 1..Len(seq) : seq[i] = j

\* X's compareFiles returned before Y's
CompletedBefore(X, Y) ==
  /\ X \in SeqToSet(completed) /\ Y \in SeqToSet(completed)
  /\ Pos(completed, X) < Pos(completed, Y)

\* X was received by main before Y
PrintedBefore(X, Y) ==
  /\ X \in SeqToSet(printed) /\ Y \in SeqToSet(printed)
  /\ Pos(printed, X) < Pos(printed, Y)

\* C13 (as claimed): results are emitted in completion order: whenever a
\* job Y has been emitted, every job X whose compareFiles returned before
\* Y's was emitted before Y.
C13_EmittedInCompletionOrder ==
  \A Y \in SeqToSet(printed) : \A X \in SeqToSet(completed) :
    CompletedBefore(X, Y) => PrintedBefore(X, Y)

\* C13 (amended): a job is emitted only after its compareFiles returned,
\* and completion order is emission order among the jobs of one worker;
\* jobs finished by different workers are emitted in either order.
C13_CompletionOrderPerWorker ==
  /\ SeqToSet(printed) \subseteq SeqToSet(completed)
  /\ \A Y \in SeqToSet(printed) : \A X \in SeqToSet(completed) :
       (workerOf[X] = workerOf[Y] /\ CompletedBefore(X, Y)) => PrintedBefore(X, Y)

\* two workers' results reach main in the opposite of their completion order
C13_Witness ==
  \E X \in SeqToSet(printed), Y \in SeqToSet(printed) :
    /\ workerOf[X] # workerOf[Y]
    /\ CompletedBefore(X, Y) /\ PrintedBefore(Y, X)


\* ---------------------------------------------------------------------
\* C14, C15
\* ---------------------------------------------------------------------

\* the jobs worker w has received so far
JobsOf(w) == {j \in DOMAIN workerOf : workerOf[j] = w}

\* worker w is inside compareFiles
MidJob(w) == wPc[w] \in {"normalize", "exec", "combine", "remove"}

\* C14: a worker holds one job at a time: every job it received earlier has
\* run to completion and its temporary file is gone before the next is
\* received, and while the worker is idle, receiving or handing on a
\* result, no temporary file of any of its jobs exists.
C14_OneJobAtATime ==
  \A w \in Workers :
    /\ \A j \in JobsOf(w) :
         j # wJob[w] =>
           (j \in SeqToSet(completed) /\ ResizePath(j) \notin DOMAIN fs)
    /\ ~MidJob(w) => \A j \in JobsOf(w) : ResizePath(j) \notin DOMAIN fs
    /\ MidJob(w) => (wJob[w] \in JobsOf(w) /\ wJob[w] \notin SeqToSet(completed))

\* C14 witness: a worker has taken its second job after a first one whose
\* inputs differed in height, so that a temporary file was made for it.
C14_Witness ==
  \E w \in Workers : \E j \in JobsOf(w) :
    /\ wPc[w] = "normalize" /\ j # wJob[w]
    /\ Decodable(j.inFile1) /\ Decodable(j.inFile2)
    /\ fs[j.inFile1].img.h # fs[j.inFile2].img.h

\* the paths compareFiles writes or deletes for a job
WritePaths(j) == {j.outFile, ResizePath(j)}

\* C15: two jobs in the hands of different workers have disjoint write
\* paths, and no job's temporary path is an input or output path of any
\* job.
C15_NoWriteContention ==
  /\ \A w1 \in Workers : \A w2 \in Workers :
       (w1 # w2 /\ MidJob(w1) /\ MidJob(w2)) =>
         /\ wJob[w1] # wJob[w2]
         /\ WritePaths(wJob[w1]) \cap WritePaths(wJob[w2]) = {}
  /\ \A j \in SeqToSet(emitted) : \A k \in SeqToSet(emitted) :
       ResizePath(j) \notin {k.inFile1, k.inFile2, k.outFile}

\* C15 witness: two workers are past normalisation at once and the
\* temporary files of both jobs exist.
C15_Witness ==
  \E w1 \in Workers : \E w2 \in Workers :
    /\ w1 # w2
    /\ wPc[w1] \in {"exec", "combine", "remove"}
    /\ wPc[w2] \in {"exec", "combine", "remove"}
    /\ ResizePath(wJob[w1]) \in DOMAIN fs
    /\ ResizePath(wJob[w2]) \in DOMAIN fs


\* ---------------------------------------------------------------------
\* C17 - C20
\* ---------------------------------------------------------------------

\* the jobs the filter has passed: handed to a worker or held for one
PassedFilter ==
  DOMAIN workerOf \cup (IF fltPc = "send" THEN {fltJob} ELSE {})

\* C17 (as claimed): with N >= 1 workers every job that passed the filter
\* is on the combined stream exactly once when the process has ended, as
\* the source made it; none is duplicated, lost or changed.
C17_ExactlyOnceDelivery ==
  /\ NoDuplicates(printed)
  /\ SeqToSet(printed) \subseteq (SeqToSet(emitted) \cap AllJobs) \ dropped
  /\ (threads >= 1 /\ proc # "running") =>
       \A j \in PassedFilter : j \in SeqToSet(printed)

\* every goroutine has finished, every stream is closed, main has returned
Finished ==
  /\ srcPc = "done" /\ fltPc = "done"
  /\ \A w \in Workers : wPc[w] = "done" /\ fwdPc[w] = "done"
  /\ chInClosed /\ chFilteredClosed /\ chOutClosed
  /\ \A w \in Workers : chFannedClosed[w]
  /\ proc = "exit"

\* C18 (as claimed): with a listable dir1 and N >= 1 workers the pipeline
\* comes to rest only where the source, the filter, every worker and every
\* forwarder have finished, every stream is closed and main's loop ended.
C18_StopsOnlyWhenFinished ==
  (threads >= 1 /\ Listable /\ ~ENABLED Next) => Finished

\* a closed stream's producer is done; the combined stream is closed only
\* when every forwarder is done; no forwarder has panicked on a send
ClosedByProducer ==
  /\ chInClosed <=> srcPc = "done"
  /\ chFilteredClosed <=> fltPc = "done"
  /\ \A w \in Workers : chFannedClosed[w] <=> wPc[w] = "done"
  /\ chOutClosed => (wg = 0 /\ \A w \in Workers : fwdPc[w] = "done")
  /\ crash.at # "forward"

\* a closed stream stays closed and carries nothing more
NothingAfterClose ==
  /\ chInClosed => (chInClosed' /\ emitted' = emitted)
  /\ chFilteredClosed => (chFilteredClosed' /\ workerOf' = workerOf)
  /\ \A w \in Workers :
       chFannedClosed[w] => (chFannedClosed'[w] /\ fwdJob'[w] \in {fwdJob[w], NoJob})
  /\ chOutClosed => (chOutClosed' /\ printed' = printed)

\* C19: a stream is closed by its producer as that producer's last step
\* and stays closed; nothing is sent on a closed stream: the combined
\* stream is closed when every forwarder is done, and no forwarder ever
\* panics on a send.
C19_ClosureSafety == []ClosedByProducer /\ [][NothingAfterClose]_vars

\* C19 witness: two workers, two results printed, every stream closed.
C19_Witness ==
  /\ threads = 2 /\ Len(printed) = 2
  /\ chInClosed /\ chFilteredClosed /\ chOutClosed
  /\ \A w \in Workers : chFannedClosed[w]

\* C20: with no worker (N <= 0) the combined stream can be closed at once
\* and main can return; no job is ever received by a worker, completed or
\* printed and no composite is written; the filter never gets past its
\* first passing job, so the source emits nothing after it.
C20_ZeroWorkers ==
  threads <= 0 =>
    /\ Workers = {} /\ wg = 0
    /\ (Running /\ ~chOutClosed) => ENABLED WaitAndClose
    /\ (Running /\ chOutClosed) => ENABLED MainReturn
    /\ DOMAIN workerOf = {} /\ completed = <<>> /\ printed = <<>>
    /\ written = {}
    /\ \A i \in 1..(Len(emitted) - 1) : emitted[i] \in dropped
    /\ (Listable /\ MatchedNames # {}) => (fltPc # "done" /\ ~chFilteredClosed)
    /\ (fltPc = "send" /\ srcPc = "loop" /\ srcIdx <= Len(files)) => ~ENABLED SourceSend

\* C20 witness: no worker, main has returned, a matched pair exists and
\* nothing was written; the filter holds the job and the source is stuck
\* at the send of the next one.
C20_Witness ==
  /\ threads = 0 /\ proc = "exit" /\ Cardinality(MatchedNames) = 2
  /\ written = {} /\ fltPc = "send"
  /\ srcPc = "loop" /\ srcIdx <= Len(files) /\ IsPngName(files[srcIdx])

====
